---- MODULE Spec2Model ----
(***************************************************************************)
(* Model of accounting_decision_tree.py: the three node kinds              *)
(* (DecisionNode, OutcomeNode, MultiBranchNode), the DecisionTreeEngine    *)
(* and the loan-approval tree of the demonstration block.                  *)
(*                                                                         *)
(* Objects live in a heap `nodes` (node id -> fields).  One evaluate call  *)
(* is one step; what the call did (every child call, predicate call,       *)
(* action call and return, in program order) is recorded in `last.log`.    *)
(***************************************************************************)
EXTENDS Integers, Sequences, FiniteSets, TLC

VARIABLES
    nodes,          \* heap of Node objects: id -> fields set by __init__
    root,           \* DecisionTreeEngine.root
    trace,          \* contents of the list DecisionTreeEngine.trace refers to
    callerRef,      \* list the caller got from get_trace: "none", "current", "stale"
    staleList,      \* contents of a list the engine has dropped, still held by the caller
    callerMutated,  \* history: the caller appended to the engine's current buffer
    last            \* history: the last Engine.evaluate call and what it did

vars == <<nodes, root, trace, callerRef, staleList, callerMutated, last>>

---------------------------------------------------------------------------
(* Bounds of the model *)

MaxVal == 2          \* the generic contexts carry x in 0..MaxVal
MaxBranches == 2     \* add_branch is enabled below this many branches
MaxTraceLen == 2     \* the caller appends to a list up to this length
Margin == 1          \* loan contexts sample threshold-Margin..threshold+Margin

---------------------------------------------------------------------------
(* Python values: None, str, bool, int, list, function objects *)

None == <<"NoneType">>
Str(s) == <<"str", s>>
Bool(b) == <<"bool", b>>
Num(i) == <<"int", i>>
List(s) == <<"list", s>>
Fn(f) == <<"function", f>>

\* bool(v) as Python computes it for the `if v:` tests of the source
Truthy(v) ==
    CASE v[1] = "NoneType" -> FALSE
      [] v[1] = "bool"     -> v[2]
      [] v[1] = "int"      -> v[2] # 0
      [] v[1] = "str"      -> v[2] # ""
      [] v[1] = "list"     -> Len(v[2]) > 0
      [] OTHER             -> TRUE

\* an Optional[Node] field: NoNode is None, any other value is a node id;
\* Node defines neither __bool__ nor __len__, so a node is truthy
NoNode == 0
IsPresent(ref) == ref # NoNode

---------------------------------------------------------------------------
(* Contexts: a dict, as its set of <<key, value>> items *)

HasKey(ctx, k) == \E it \in ctx : it[1] = k

\* ctx.get(k, d)
Get(ctx, k, d) == IF HasKey(ctx, k) THEN (CHOOSE it \in ctx : it[1] = k)[2] ELSE d

---------------------------------------------------------------------------
(* Predicates (the `condition` callables) and actions *)

\* Mutant: `>` where the source has `>=`
GeStrict(key, dflt, thr) == [op |-> ">=", key |-> key, dflt |-> dflt, thr |-> thr + 1]

\* lambda ctx: ctx.get(key, dflt) >= thr
Ge(key, dflt, thr) == [op |-> ">=", key |-> key, dflt |-> dflt, thr |-> thr]
\* lambda ctx: ctx.get(key, dflt) <= thr
Le(key, dflt, thr) == [op |-> "<=", key |-> key, dflt |-> dflt, thr |-> thr]
\* a predicate that raises on every context
Failing == [op |-> "raise", key |-> "x", dflt |-> 0, thr |-> 0]

PredExc == <<"Exception", "condition failed">>
ActionExc == <<"Exception", "action failed">>

\* condition(context): [raised, exc, val]
ApplyCondition(p, ctx) ==
    CASE p.op = ">=" -> [raised |-> FALSE, exc |-> None, val |-> Get(ctx, p.key, p.dflt) >= p.thr]
      [] p.op = "<=" -> [raised |-> FALSE, exc |-> None, val |-> Get(ctx, p.key, p.dflt) <= p.thr]
      [] OTHER       -> [raised |-> TRUE, exc |-> PredExc, val |-> FALSE]

\* action(context): [raised, exc, ret]; "print" is the demonstration's lambda
\* (print returns None), "tag" returns a non-None value, "raise" fails
ApplyAction(a, ctx) ==
    CASE a[2] = "print" -> [raised |-> FALSE, exc |-> None, ret |-> None]
      [] a[2] = "tag"   -> [raised |-> FALSE, exc |-> None, ret |-> Str("ACTION RESULT")]
      [] OTHER          -> [raised |-> TRUE, exc |-> ActionExc, ret |-> None]

---------------------------------------------------------------------------
(* Constructors *)

DecisionNode(condition, true_node, false_node) ==
    [kind |-> "DecisionNode", condition |-> condition,
     true_node |-> true_node, false_node |-> false_node]

OutcomeNode(value, action) ==
    [kind |-> "OutcomeNode", value |-> value, action |-> action]

MultiBranchNode ==
    [kind |-> "MultiBranchNode", branches |-> <<>>, default_node |-> NoNode]

---------------------------------------------------------------------------
(* Events of one evaluate call, in program order *)

CallEv(from, site, to) == [ev |-> "call", from |-> from, site |-> site, to |-> to]
PredEv(n, idx, res) == [ev |-> "pred", node |-> n, idx |-> idx, res |-> res]
ActionEv(n, ctx, res) == [ev |-> "action", node |-> n, ctx |-> ctx, res |-> res]
ReturnEv(n, value) == [ev |-> "return", node |-> n, value |-> value]

\* outcome of a call: it returned `value`, or `exc` propagated out of it
Returned(n, value, log, heap) ==
    [status |-> "return", value |-> value, exc |-> None,
     log |-> Append(log, ReturnEv(n, value)), heap |-> heap]
Raised(exc, log, heap) ==
    [status |-> "raise", value |-> None, exc |-> exc, log |-> log, heap |-> heap]

\* `return child.evaluate(context)` in node n: the child's value is returned
\* as it is; an exception of the child propagates (no try/except anywhere)
ReturnCall(n, sub) ==
    IF sub.status = "raise" THEN sub
    ELSE Returned(n, sub.value, sub.log, sub.heap)

---------------------------------------------------------------------------
(* evaluate *)

RECURSIVE NodeEvaluate(_, _, _, _)

\* Mutant: `elif self.false_node:` without `not result`, so a true predicate
\* with no true branch falls through to the false branch
DecisionEvaluateFallThrough(heap, n, ctx, log) ==
    LET self == heap[n]
        r == ApplyCondition(self.condition, ctx)
    IN  IF r.raised
        THEN Raised(r.exc, Append(log, PredEv(n, 0, "raise")), heap)
        ELSE LET result == r.val
                 log1 == Append(log, PredEv(n, 0, IF result THEN "true" ELSE "false"))
             IN  IF result /\ IsPresent(self.true_node)
                 THEN ReturnCall(n, NodeEvaluate(heap, self.true_node, ctx,
                          Append(log1, CallEv(n, "true_node", self.true_node))))
                 ELSE IF IsPresent(self.false_node)
                 THEN ReturnCall(n, NodeEvaluate(heap, self.false_node, ctx,
                          Append(log1, CallEv(n, "false_node", self.false_node))))
                 ELSE Returned(n, None, log1, heap)

\* Mutant: both children are evaluated and the selected one's result is kept
DecisionEvaluateBoth(heap, n, ctx, log) ==
    LET self == heap[n]
        r == ApplyCondition(self.condition, ctx)
    IN  IF r.raised
        THEN Raised(r.exc, Append(log, PredEv(n, 0, "raise")), heap)
        ELSE LET result == r.val
                 log1 == Append(log, PredEv(n, 0, IF result THEN "true" ELSE "false"))
                 t == IF IsPresent(self.true_node)
                      THEN NodeEvaluate(heap, self.true_node, ctx,
                               Append(log1, CallEv(n, "true_node", self.true_node)))
                      ELSE Raised(None, log1, heap)
                 log2 == t.log
                 f == IF IsPresent(self.false_node)
                      THEN NodeEvaluate(heap, self.false_node, ctx,
                               Append(log2, CallEv(n, "false_node", self.false_node)))
                      ELSE Raised(None, log2, heap)
             IN  IF result /\ IsPresent(self.true_node)
                 THEN ReturnCall(n, [t EXCEPT !.log = f.log])
                 ELSE IF ~result /\ IsPresent(self.false_node)
                 THEN ReturnCall(n, f)
                 ELSE Returned(n, None, f.log, heap)

\* DecisionNode.evaluate
DecisionEvaluate(heap, n, ctx, log) ==
    LET self == heap[n]
        r == ApplyCondition(self.condition, ctx)
    IN  IF r.raised
        THEN Raised(r.exc, Append(log, PredEv(n, 0, "raise")), heap)
        ELSE LET result == r.val
                 log1 == Append(log, PredEv(n, 0, IF result THEN "true" ELSE "false"))
             IN  IF result /\ IsPresent(self.true_node)
                 THEN ReturnCall(n, NodeEvaluate(heap, self.true_node, ctx,
                          Append(log1, CallEv(n, "true_node", self.true_node))))
                 ELSE IF ~result /\ IsPresent(self.false_node)
                 THEN ReturnCall(n, NodeEvaluate(heap, self.false_node, ctx,
                          Append(log1, CallEv(n, "false_node", self.false_node))))
                 ELSE Returned(n, None, log1, heap)

\* Mutant: `return self.action(context)`, the action's result instead of the value
OutcomeEvaluateReturnsAction(heap, n, ctx, log) ==
    LET self == heap[n]
    IN  IF Truthy(self.action)
        THEN LET a == ApplyAction(self.action, ctx)
             IN  IF a.raised
                 THEN Raised(a.exc, Append(log, ActionEv(n, ctx, "raise")), heap)
                 ELSE Returned(n, a.ret, Append(log, ActionEv(n, ctx, "ok")), heap)
        ELSE Returned(n, self.value, log, heap)

\* Mutant: a one-shot action, cleared once it ran (`self.action = None`)
OutcomeEvaluateOneShot(heap, n, ctx, log) ==
    LET self == heap[n]
    IN  IF Truthy(self.action)
        THEN LET a == ApplyAction(self.action, ctx)
                 heap1 == [heap EXCEPT ![n].action = None]
             IN  IF a.raised
                 THEN Raised(a.exc, Append(log, ActionEv(n, ctx, "raise")), heap1)
                 ELSE Returned(n, self.value, Append(log, ActionEv(n, ctx, "ok")), heap1)
        ELSE Returned(n, self.value, log, heap)

\* OutcomeNode.evaluate
OutcomeEvaluate(heap, n, ctx, log) ==
    LET self == heap[n]
    IN  IF Truthy(self.action)
        THEN LET a == ApplyAction(self.action, ctx)
             IN  IF a.raised
                 THEN Raised(a.exc, Append(log, ActionEv(n, ctx, "raise")), heap)
                 ELSE Returned(n, self.value, Append(log, ActionEv(n, ctx, "ok")), heap)
        ELSE Returned(n, self.value, log, heap)

\* MultiBranchNode.evaluate, lines 66-69: after the loop found no match
DefaultEvaluate(heap, n, ctx, log) ==
    LET self == heap[n]
    IN  IF IsPresent(self.default_node)
        THEN ReturnCall(n, NodeEvaluate(heap, self.default_node, ctx,
                 Append(log, CallEv(n, "default_node", self.default_node))))
        ELSE Returned(n, None, log, heap)

RECURSIVE ScanBranches(_, _, _, _, _)

\* Mutant: a later matching branch overrides an earlier one (last match wins)
ScanBranchesLastWins(heap, n, ctx, log, i) ==
    LET self == heap[n]
    IN  IF i > Len(self.branches)
        THEN DefaultEvaluate(heap, n, ctx, log)
        ELSE LET condition == self.branches[i][1]
                 node == self.branches[i][2]
                 r == ApplyCondition(condition, ctx)
                 later == \E j \in (i + 1)..Len(self.branches) :
                              LET q == ApplyCondition(self.branches[j][1], ctx)
                              IN  ~q.raised /\ q.val
             IN  IF r.raised
                 THEN Raised(r.exc, Append(log, PredEv(n, i, "raise")), heap)
                 ELSE IF r.val /\ ~later
                 THEN ReturnCall(n, NodeEvaluate(heap, node, ctx,
                          Append(Append(log, PredEv(n, i, "true")), CallEv(n, "branch", node))))
                 ELSE ScanBranches(heap, n, ctx, Append(log, PredEv(n, i, "false")), i + 1)

\* Mutant: `try: matched = condition(context) except Exception: continue`
ScanBranchesSwallow(heap, n, ctx, log, i) ==
    LET self == heap[n]
    IN  IF i > Len(self.branches)
        THEN DefaultEvaluate(heap, n, ctx, log)
        ELSE LET condition == self.branches[i][1]
                 node == self.branches[i][2]
                 r == ApplyCondition(condition, ctx)
             IN  IF r.raised
                 THEN ScanBranches(heap, n, ctx, Append(log, PredEv(n, i, "raise")), i + 1)
                 ELSE IF r.val
                 THEN ReturnCall(n, NodeEvaluate(heap, node, ctx,
                          Append(Append(log, PredEv(n, i, "true")), CallEv(n, "branch", node))))
                 ELSE ScanBranches(heap, n, ctx, Append(log, PredEv(n, i, "false")), i + 1)

\* Mutant: every predicate is evaluated first (a list comprehension), then
\* the first match is taken
EvaluateAll(heap, n, ctx, log) ==
    LET bs == heap[n].branches
        F[i \in 0..Len(bs)] ==
            IF i = 0 THEN log
            ELSE Append(F[i - 1],
                        PredEv(n, i, IF ApplyCondition(bs[i][1], ctx).val
                                     THEN "true" ELSE "false"))
    IN  F[Len(bs)]
ScanBranchesEager(heap, n, ctx, log, i) ==
    LET self == heap[n]
        hits == {j \in 1..Len(self.branches) : ApplyCondition(self.branches[j][1], ctx).val}
        first == CHOOSE j \in hits : \A k \in hits : j <= k
        log1 == EvaluateAll(heap, n, ctx, log)
    IN  IF hits = {}
        THEN DefaultEvaluate(heap, n, ctx, log1)
        ELSE ReturnCall(n, NodeEvaluate(heap, self.branches[first][2], ctx,
                 Append(log1, CallEv(n, "branch", self.branches[first][2]))))

\* MultiBranchNode.evaluate, the for loop from branch i on
ScanBranches(heap, n, ctx, log, i) ==
    LET self == heap[n]
    IN  IF i > Len(self.branches)
        THEN DefaultEvaluate(heap, n, ctx, log)
        ELSE LET condition == self.branches[i][1]
                 node == self.branches[i][2]
                 r == ApplyCondition(condition, ctx)
             IN  IF r.raised
                 THEN Raised(r.exc, Append(log, PredEv(n, i, "raise")), heap)
                 ELSE IF r.val
                 THEN ReturnCall(n, NodeEvaluate(heap, node, ctx,
                          Append(Append(log, PredEv(n, i, "true")), CallEv(n, "branch", node))))
                 ELSE ScanBranches(heap, n, ctx, Append(log, PredEv(n, i, "false")), i + 1)

\* MultiBranchNode.evaluate
MultiBranchEvaluate(heap, n, ctx, log) == ScanBranches(heap, n, ctx, log, 1)

\* node.evaluate(context): dispatch on the object's class
NodeEvaluate(heap, n, ctx, log) ==
    CASE heap[n].kind = "DecisionNode"    -> DecisionEvaluate(heap, n, ctx, log)
      [] heap[n].kind = "OutcomeNode"     -> OutcomeEvaluate(heap, n, ctx, log)
      [] heap[n].kind = "MultiBranchNode" -> MultiBranchEvaluate(heap, n, ctx, log)

---------------------------------------------------------------------------
(* DecisionTreeEngine *)

Engine == 0   \* the caller of root.evaluate in the log

\* what the caller sees of a call: how it ended, with what, and what it invoked
Outcome(res) == [status |-> res.status, value |-> res.value, exc |-> res.exc, log |-> res.log]
NoOutcome == [status |-> "none", value |-> None, exc |-> None, log |-> <<>>]

\* `last` before any call, and after the tree was changed
NoCall ==
    [called |-> FALSE, ctx |-> {}, reset |-> None, status |-> "none", value |-> None,
     exc |-> None, log |-> <<>>, traceBefore |-> <<>>, traceAfter |-> <<>>,
     heapBefore |-> <<>>, rootBefore |-> NoNode, again |-> FALSE, before |-> NoOutcome]

\* Mutant: `if trace is not None:` where the source tests truthiness
ResetTraceUnlessNone(buffer, reset) == IF reset # None THEN <<>> ELSE buffer

\* DecisionTreeEngine.evaluate, lines 78-79: the buffer after `if trace: self.trace = []`
ResetTrace(buffer, reset) == IF Truthy(reset) THEN <<>> ELSE buffer

\* DecisionTreeEngine.evaluate, lines 81-82
RootEvaluate(heap, rt, ctx) == NodeEvaluate(heap, rt, ctx, <<CallEv(Engine, "root", rt)>>)

\* DecisionTreeEngine.evaluate(context, trace)
EngineEvaluate(context, reset) ==
    LET rebound == Truthy(reset)
        res == RootEvaluate(nodes, root, context)
    IN  /\ trace' = ResetTrace(trace, reset)
        \* `self.trace = []` binds a new list: one the caller holds is no longer the engine's
        /\ callerRef' = IF rebound /\ callerRef = "current" THEN "stale" ELSE callerRef
        /\ staleList' = IF rebound /\ callerRef = "current" THEN trace ELSE staleList
        /\ nodes' = res.heap
        /\ last' = [called |-> TRUE, ctx |-> context, reset |-> reset, status |-> res.status,
                    value |-> res.value, exc |-> res.exc, log |-> res.log,
                    traceBefore |-> trace, traceAfter |-> trace',
                    heapBefore |-> nodes, rootBefore |-> root,
                    \* the call before this one had the same context, on the same tree
                    again |-> last.called /\ last.ctx = context,
                    before |-> IF last.called /\ last.ctx = context
                               THEN Outcome(last) ELSE NoOutcome]
        /\ UNCHANGED <<root, callerMutated>>

\* DecisionTreeEngine.get_trace: the caller now holds the engine's own list
GetTrace ==
    /\ callerRef' = "current"
    /\ staleList' = <<>>
    /\ UNCHANGED <<nodes, root, trace, callerMutated, last>>

\* the caller appends to the list get_trace gave it
CallerAppend ==
    /\ callerRef # "none"
    /\ IF callerRef = "current"
       THEN /\ Len(trace) < MaxTraceLen
            /\ trace' = Append(trace, Str("entry"))
            /\ callerMutated' = TRUE
            /\ UNCHANGED staleList
       ELSE /\ Len(staleList) < MaxTraceLen
            /\ staleList' = Append(staleList, Str("entry"))
            /\ UNCHANGED <<trace, callerMutated>>
    /\ UNCHANGED <<nodes, root, callerRef, last>>

\* MultiBranchNode.add_branch on node m
AddBranch(m, condition, node) ==
    /\ nodes[m].kind = "MultiBranchNode"
    /\ Len(nodes[m].branches) < MaxBranches
    /\ nodes' = [nodes EXCEPT ![m].branches = Append(@, <<condition, node>>)]
    /\ last' = NoCall
    /\ UNCHANGED <<root, trace, callerRef, staleList, callerMutated>>

\* MultiBranchNode.set_default on node m
SetDefault(m, node) ==
    /\ nodes[m].kind = "MultiBranchNode"
    /\ nodes[m].default_node # node
    /\ nodes' = [nodes EXCEPT ![m].default_node = node]
    /\ last' = NoCall
    /\ UNCHANGED <<root, trace, callerRef, staleList, callerMutated>>

---------------------------------------------------------------------------
(* Inputs *)

\* {} and {"x": v}
Contexts == {{}} \cup {{<<"x", v>>} : v \in 0..MaxVal}

Conditions == {Ge("x", 0, 1), Ge("x", 0, 2), Le("x", 1, 1), Failing}
BranchConditions == {Ge("x", 0, 1), Ge("x", 0, 2), Failing}

\* the demonstration passes trace=None (line 129) and trace=[] (line 163),
\* both falsy; True is a truthy one
SomeResets == {None, List(<<>>), Bool(TRUE)}
ResetValues == {None, List(<<>>), List(<<Str("t")>>), Bool(TRUE), Bool(FALSE), Num(0), Num(1)}

\* leaves shared by the generic trees
Leaves ==
    (1 :> OutcomeNode(Str("A"), Fn("tag"))) @@
    (2 :> OutcomeNode(Str("B"), None)) @@
    (3 :> OutcomeNode(None, None)) @@
    (4 :> OutcomeNode(Str("C"), Fn("raise")))

EngineInit(heap, rt) ==
    /\ nodes = heap
    /\ root = rt
    /\ trace = <<>>
    /\ callerRef = "none"
    /\ staleList = <<>>
    /\ callerMutated = FALSE
    /\ last = NoCall

---------------------------------------------------------------------------
(* Decision trees: a DecisionNode over a MultiBranchNode over a DecisionNode *)

InitDecision ==
    \E c5 \in Conditions, t5 \in {NoNode, 1, 3}, f5 \in {NoNode, 2, 4},
       c7 \in Conditions, t7 \in {NoNode, 3, 5, 6}, f7 \in {NoNode, 2, 4, 5} :
        EngineInit(
            Leaves @@
            (5 :> DecisionNode(c5, t5, f5)) @@
            (6 :> [MultiBranchNode EXCEPT
                     !.branches = <<<<Ge("x", 0, 2), 5>>, <<Ge("x", 0, 1), 1>>>>]) @@
            (7 :> DecisionNode(c7, t7, f7)),
            7)

DecisionEvaluateCall == \E c \in Contexts, r \in SomeResets : EngineEvaluate(c, r)

NextDecision == DecisionEvaluateCall

SpecDecision == InitDecision /\ [][NextDecision]_vars

---------------------------------------------------------------------------
(* A MultiBranchNode built by add_branch and set_default, then evaluated *)

InitMulti ==
    EngineInit(
        Leaves @@
        (5 :> DecisionNode(Ge("x", 0, 2), 1, NoNode)) @@
        (6 :> MultiBranchNode),
        6)

\* the caller builds a tree: the nodes added are not ancestors of node 6
Build ==
    \/ \E c \in BranchConditions, n \in {1, 2, 4, 5} : AddBranch(6, c, n)
    \/ \E n \in {NoNode, 2, 3, 5} : SetDefault(6, n)

\* line 163: risk_engine.evaluate(case, trace=[])
Evaluate == \E c \in Contexts : EngineEvaluate(c, List(<<>>))

Next == Build \/ Evaluate

Spec == InitMulti /\ [][Next]_vars

---------------------------------------------------------------------------
(* The loan-approval tree of the demonstration *)

LoanTree ==
    (1 :> OutcomeNode(Str("APPROVED"), Fn("print"))) @@
    (2 :> OutcomeNode(Str("DENIED - Insufficient Income"), None)) @@
    (3 :> OutcomeNode(Str("DENIED - Low Credit Score"), None)) @@
    (4 :> OutcomeNode(Str("MANUAL REVIEW REQUIRED"), None)) @@
    (5 :> DecisionNode(Ge("credit_score", 0, 650), 1, 3)) @@
    (6 :> DecisionNode(Ge("income", 0, 50000), 5, 2)) @@
    (7 :> DecisionNode(Le("amount", 0, 100000), 6, 4))

Absent == -1   \* "the key is not in the dict", in the sampling below only
Around(thr) == {Absent, 0} \cup ((thr - Margin)..(thr + Margin))
Item(k, v) == IF v = Absent THEN {} ELSE {<<k, v>>}

LoanContexts ==
    {Item("amount", a) \cup Item("income", i) \cup Item("credit_score", s) :
        a \in Around(100000), i \in Around(50000), s \in Around(650)}

InitLoan == EngineInit(LoanTree, 7)

\* line 129: engine.evaluate(case, trace=None)
LoanEvaluate == \E c \in LoanContexts : EngineEvaluate(c, None)

NextLoan == LoanEvaluate

SpecLoan == InitLoan /\ [][NextLoan]_vars

---------------------------------------------------------------------------
(* The trace buffer: evaluate with any reset_trace, get_trace, caller appends *)

\* test_cases, lines 119-124
TestCases ==
    { {<<"amount", 50000>>, <<"income", 75000>>, <<"credit_score", 700>>},
      {<<"amount", 50000>>, <<"income", 40000>>, <<"credit_score", 700>>},
      {<<"amount", 50000>>, <<"income", 75000>>, <<"credit_score", 600>>},
      {<<"amount", 150000>>, <<"income", 75000>>, <<"credit_score", 700>>} }

TraceEvaluate == \E c \in TestCases, r \in ResetValues : EngineEvaluate(c, r)

NextTrace == TraceEvaluate \/ GetTrace \/ CallerAppend

SpecTrace == InitLoan /\ [][NextTrace]_vars

---------------------------------------------------------------------------
(* Reading the record of the last call *)

Log == last.log
LogIdx == 1..Len(Log)
IsCall(e) == e.ev = "call"
IsAction(e) == e.ev = "action"
Calls == SelectSeq(Log, IsCall)
Actions == SelectSeq(Log, IsAction)
IsOutcomeCall(e) == e.ev = "call" /\ nodes[e.to].kind = "OutcomeNode"
CallsFrom(n) == {i \in LogIdx : Log[i].ev = "call" /\ Log[i].from = n}

\* how a call ended and with what, leaving out what it invoked
Ended(res) == [status |-> res.status, value |-> res.value, exc |-> res.exc]
EndedNone == [status |-> "return", value |-> None, exc |-> None]

\* node.evaluate(ctx) called from the outside
Eval(n, ctx) == NodeEvaluate(nodes, n, ctx, <<>>)

DecisionNodes == {n \in DOMAIN nodes : nodes[n].kind = "DecisionNode"}

---------------------------------------------------------------------------
(* C1: a DecisionNode returns its true branch's evaluation when the        *)
(* predicate is true and that branch is present, its false branch's when   *)
(* the predicate is false and that branch is present, and "no result"      *)
(* (None) otherwise; it never evaluates the branch the predicate did not   *)
(* select.                                                                 *)

C1_Selected(n, ctx) ==
    IF ApplyCondition(nodes[n].condition, ctx).val
    THEN nodes[n].true_node ELSE nodes[n].false_node

C1_DecisionDispatch ==
    /\ \A n \in DecisionNodes, c \in Contexts :
          ~ApplyCondition(nodes[n].condition, c).raised =>
             IF IsPresent(C1_Selected(n, c))
             THEN Ended(Eval(n, c)) = Ended(Eval(C1_Selected(n, c), c))
             ELSE Ended(Eval(n, c)) = EndedNone
    /\ last.called =>
          \A i \in LogIdx : Log[i].ev = "call" /\ Log[i].from \in DecisionNodes =>
             /\ Log[i - 1] = PredEv(Log[i].from, 0,
                                    IF Log[i].site = "true_node" THEN "true" ELSE "false")
             /\ Log[i].to = C1_Selected(Log[i].from, last.ctx)
             /\ Cardinality(CallsFrom(Log[i].from)) = 1

\* the predicate is true, the true branch is absent, the false branch is
\* present, and the call returned None without entering the false branch
C1_Witness ==
    /\ last.called
    /\ ApplyCondition(nodes[root].condition, last.ctx).val
    /\ ~IsPresent(nodes[root].true_node)
    /\ IsPresent(nodes[root].false_node)
    /\ last.status = "return" /\ last.value = None
    /\ CallsFrom(root) = {}

---------------------------------------------------------------------------
(* C3: an OutcomeNode with an action invokes it exactly once, with the     *)
(* call's context, before it returns, and returns its own value whatever   *)
(* the action returned; an OutcomeNode without an action invokes nothing.  *)

C3_ActionOnceBeforeReturn ==
    last.called =>
       \A i \in LogIdx : IsOutcomeCall(Log[i]) =>
          LET n == Log[i].to
          IN  IF nodes[n].action # None
              THEN /\ i + 1 <= Len(Log)
                   /\ Log[i + 1].ev = "action"
                   /\ Log[i + 1].node = n
                   /\ Log[i + 1].ctx = last.ctx
                   /\ Len(Actions) = 1
                   /\ Log[i + 1].res = "ok" =>
                         /\ Log[i + 2] = ReturnEv(n, nodes[n].value)
                         /\ last.status = "return"
                         /\ last.value = nodes[n].value
              ELSE /\ Log[i + 1] = ReturnEv(n, nodes[n].value)
                   /\ Len(Actions) = 0
                   /\ last.status = "return"
                   /\ last.value = nodes[n].value

\* node 1 was reached: its action returned a value of its own, the call returned "A"
C3_Witness ==
    /\ last.called
    /\ \E i \in LogIdx : IsOutcomeCall(Log[i]) /\ Log[i].to = 1
    /\ ApplyAction(nodes[1].action, last.ctx).ret = Str("ACTION RESULT")
    /\ last.value = Str("A")

---------------------------------------------------------------------------
(* C4: the value a call returns when it stops at a missing branch (None)   *)
(* differs from every value a call returns by reaching an OutcomeNode.     *)

C4_NoResultDistinct ==
    (last.called /\ last.status = "return" /\ \E i \in LogIdx : IsOutcomeCall(Log[i]))
        => last.value # None

\* None is what a call that stopped at a missing branch returns
C4_MissingBranchIsNone ==
    (last.called /\ last.status = "return" /\ ~\E i \in LogIdx : IsOutcomeCall(Log[i]))
        => last.value = None

---------------------------------------------------------------------------
(* C10: a call enters the nodes of one downward path from the root: no     *)
(* node twice, each the child of the one before, at most Depth of them,    *)
(* at most one OutcomeNode and so at most one action; and the call ends.   *)

Max(S) == CHOOSE m \in S : \A x \in S : x <= m

Children(n) ==
    CASE nodes[n].kind = "DecisionNode" ->
            {nodes[n].true_node, nodes[n].false_node} \ {NoNode}
      [] nodes[n].kind = "MultiBranchNode" ->
            ({nodes[n].branches[i][2] : i \in 1..Len(nodes[n].branches)}
                \cup {nodes[n].default_node}) \ {NoNode}
      [] OTHER -> {}

RECURSIVE Depth(_)
Depth(n) == 1 + Max({0} \cup {Depth(c) : c \in Children(n)})

C10_SinglePath ==
    last.called =>
       /\ last.status \in {"return", "raise"}
       /\ Len(Calls) >= 1
       /\ Calls[1] = CallEv(Engine, "root", root)
       /\ \A i \in 1..(Len(Calls) - 1) :
             /\ Calls[i + 1].from = Calls[i].to
             /\ Calls[i + 1].to \in Children(Calls[i].to)
       /\ \A i, j \in 1..Len(Calls) : i # j => Calls[i].to # Calls[j].to
       /\ Len(Calls) <= Depth(root)
       /\ Len(SelectSeq(Log, IsOutcomeCall)) <= 1
       /\ Len(Actions) <= 1

\* a path of four nodes: DecisionNode, MultiBranchNode, DecisionNode, OutcomeNode
C10_Witness ==
    /\ last.called
    /\ Len(Calls) = 4
    /\ nodes[Calls[2].to].kind = "MultiBranchNode"
    /\ nodes[Calls[4].to].kind = "OutcomeNode"
    /\ last.status = "return"

---------------------------------------------------------------------------
(* C2: a MultiBranchNode built by add_branch and set_default returns the   *)
(* evaluation of the node paired with the lowest-index predicate that is   *)
(* true; with no true predicate, the evaluation of the default node last   *)
(* set, if any, and None otherwise (so always None when it has no branch   *)
(* and no default).                                                        *)

C2_Branches == nodes[root].branches
C2_Holds(i, ctx) ==
    LET r == ApplyCondition(C2_Branches[i][1], ctx) IN ~r.raised /\ r.val
C2_Matching(ctx) == {i \in 1..Len(C2_Branches) : C2_Holds(i, ctx)}
C2_Lowest(ctx) == CHOOSE i \in C2_Matching(ctx) : \A j \in C2_Matching(ctx) : i <= j
\* the predicates the claim is about (those up to the first match) are total on ctx
C2_Total(ctx) ==
    \A i \in 1..Len(C2_Branches) :
        (C2_Matching(ctx) = {} \/ i <= C2_Lowest(ctx))
            => ~ApplyCondition(C2_Branches[i][1], ctx).raised

C2_FirstMatchOrDefault ==
    (last.called /\ C2_Total(last.ctx)) =>
        IF C2_Matching(last.ctx) # {}
        THEN Ended(last) = Ended(Eval(C2_Branches[C2_Lowest(last.ctx)][2], last.ctx))
        ELSE IF IsPresent(nodes[root].default_node)
        THEN Ended(last) = Ended(Eval(nodes[root].default_node, last.ctx))
        ELSE Ended(last) = EndedNone

\* two branches with different nodes, both predicates true: the first one won
C2_Witness ==
    /\ last.called
    /\ Len(C2_Branches) = 2
    /\ C2_Matching(last.ctx) = {1, 2}
    /\ C2_Branches[1][2] = 2 /\ C2_Branches[2][2] = 1
    /\ IsPresent(nodes[root].default_node)
    /\ last.value = Str("B")

---------------------------------------------------------------------------
(* C5: a failure of a predicate or an action is the failure the caller of  *)
(* Engine.evaluate gets: no value is returned by any node, the failing     *)
(* step is the last thing the call did (no retry, no later predicate or    *)
(* action), and after a predicate failure no action has run.               *)

C5_Failures == {i \in LogIdx : Log[i].ev \in {"pred", "action"} /\ Log[i].res = "raise"}

C5_FailurePropagates ==
    last.called =>
       /\ (last.status = "raise") = (C5_Failures # {})
       /\ \A i \in C5_Failures :
             /\ i = Len(Log)
             /\ last.status = "raise"
             /\ last.exc = (IF Log[i].ev = "pred" THEN PredExc ELSE ActionExc)
             /\ \A j \in LogIdx : Log[j].ev # "return"
             /\ Log[i].ev = "pred" => Len(Actions) = 0

\* the second predicate of the MultiBranchNode failed after the first was false
C5_Witness ==
    /\ last.called
    /\ last.status = "raise"
    /\ last.exc = PredExc
    /\ Len(Log) = 3
    /\ Log[2] = PredEv(root, 1, "false")
    /\ Log[3] = PredEv(root, 2, "raise")

---------------------------------------------------------------------------
(* C8: MultiBranchNode.evaluate evaluates its predicates in insertion      *)
(* order, each at most once, up to and including the first true one, and   *)
(* then neither a later predicate nor the default node.                    *)

C8_IsRootPred(e) == e.ev = "pred" /\ e.node = root
C8_Preds == SelectSeq(Log, C8_IsRootPred)

C8_ShortCircuit ==
    last.called =>
       /\ Len(C8_Preds) <= Len(nodes[root].branches)
       /\ \A k \in 1..Len(C8_Preds) :
             /\ C8_Preds[k].idx = k
             /\ k < Len(C8_Preds) => C8_Preds[k].res = "false"
       /\ \A k \in 1..Len(C8_Preds) : C8_Preds[k].res = "true" =>
             /\ \A i \in CallsFrom(root) :
                   Log[i] = CallEv(root, "branch", nodes[root].branches[k][2])
             /\ Cardinality(CallsFrom(root)) = 1
       /\ (\A k \in 1..Len(C8_Preds) : C8_Preds[k].res = "false") =>
             /\ Len(C8_Preds) = Len(nodes[root].branches)
             /\ \A i \in CallsFrom(root) : Log[i].site = "default_node"

\* the first of two true predicates matched: the second was not evaluated,
\* nor was the default node that is present
C8_Witness ==
    /\ last.called
    /\ Len(nodes[root].branches) = 2
    /\ C2_Matching(last.ctx) = {1, 2}
    /\ IsPresent(nodes[root].default_node)
    /\ Len(C8_Preds) = 1
    /\ C8_Preds[1].res = "true"

---------------------------------------------------------------------------
(* C6: evaluate is repeatable: a call that repeats the context of the call *)
(* before it, on the same tree and with whatever reset_trace, ends the     *)
(* same way with the same value and invokes the same predicates and action *)
(* in the same order; and no call changes the tree or the engine's root.   *)

C6_Repeatable ==
    /\ last.called => (nodes = last.heapBefore /\ root = last.rootBefore)
    /\ last.again => last.before = Outcome(last)

\* a repeated call that invoked the action of the outcome it reached again
C6_Witness ==
    /\ last.again
    /\ last.status = "return"
    /\ Len(Actions) = 1
    /\ Len(last.before.log) = Len(Log)

---------------------------------------------------------------------------
(* C7: the trace buffer is empty at construction; evaluate with a truthy   *)
(* reset_trace leaves it empty, with a falsy one (None, [], False, 0)      *)
(* leaves it as it was, and never appends; so the buffer is empty unless   *)
(* the caller has appended to it; and evaluate returns what                *)
(* root.evaluate(context) returns.                                         *)

C7_Falsy == {None, List(<<>>), Bool(FALSE), Num(0)}

C7_TraceBuffer ==
    /\ ~callerMutated => trace = <<>>
    /\ last.called =>
          /\ last.reset \in C7_Falsy => last.traceAfter = last.traceBefore
          /\ last.reset \notin C7_Falsy => last.traceAfter = <<>>
          /\ Len(last.traceAfter) <= Len(last.traceBefore)
          /\ Outcome(last) = Outcome(NodeEvaluate(nodes, root, last.ctx,
                                                  <<CallEv(Engine, "root", root)>>))

\* evaluate(case, []) on a buffer the caller had filled: the buffer was kept
C7_Witness ==
    /\ last.called
    /\ last.reset = List(<<>>)
    /\ Len(last.traceBefore) = MaxTraceLen
    /\ last.traceAfter = last.traceBefore
    /\ last.status = "return"

---------------------------------------------------------------------------
(* C9: the loan-approval tree returns, for integer amount, income and      *)
(* credit_score (0 for a missing key): "MANUAL REVIEW REQUIRED" when       *)
(* amount > 100000, else "DENIED - Insufficient Income" when income <      *)
(* 50000, else "DENIED - Low Credit Score" when credit_score < 650, else   *)
(* "APPROVED"; never None; and the print action runs on "APPROVED" only.   *)

C9_Field(ctx, k) ==
    IF \E it \in ctx : it[1] = k THEN (CHOOSE it \in ctx : it[1] = k)[2] ELSE 0

C9_Table(ctx) ==
    IF C9_Field(ctx, "amount") > 100000 THEN "MANUAL REVIEW REQUIRED"
    ELSE IF C9_Field(ctx, "income") < 50000 THEN "DENIED - Insufficient Income"
    ELSE IF C9_Field(ctx, "credit_score") < 650 THEN "DENIED - Low Credit Score"
    ELSE "APPROVED"

C9_LoanTable ==
    last.called =>
       /\ last.status = "return"
       /\ last.value = Str(C9_Table(last.ctx))
       /\ last.value # None
       /\ Len(Actions) = (IF C9_Table(last.ctx) = "APPROVED" THEN 1 ELSE 0)
       /\ \A i \in 1..Len(Actions) : Actions[i] = ActionEv(1, last.ctx, "ok")

\* no "amount" key, income and credit_score on their thresholds: approved, printed
C9_Witness ==
    /\ last.called
    /\ ~HasKey(last.ctx, "amount")
    /\ <<"income", 50000>> \in last.ctx
    /\ <<"credit_score", 650>> \in last.ctx
    /\ last.value = Str("APPROVED")
    /\ Len(Actions) = 1

====
